---- MODULE Spec2Model ----
(***************************************************************************)
(* State-machine model of the caselaw fact-checker: LegalArticle parsing,  *)
(* CrossReferenceAnalyzer (reference graph, conflicts), LogicValidator,    *)
(* TimelineAnalyzer and FactChecker.                                       *)
(*                                                                         *)
(* Text.  The code only ever asks of an article text whether a fixed Greek *)
(* phrase occurs in it (Python `in`), which numbers follow the word        *)
(* "arthro", and which sentence (text.split('.')) is the first to hold a   *)
(* prohibition.  A text is therefore a sequence of sentences and a         *)
(* sentence a set of phrases; the phrases are written transliterated.      *)
(* Matches that would straddle two phrases or two sentences are not        *)
(* modelled.  Fields no decision reads (title, section, description and    *)
(* analysis strings, the timeline chart) are left out.                     *)
(***************************************************************************)
EXTENDS Integers, Sequences, FiniteSets, TLC

VARIABLES
    articles,          \* LegalParser.articles: article_no -> LegalArticle
    graph,             \* CrossReferenceAnalyzer.graph (networkx DiGraph)
    deadlines,         \* TimelineAnalyzer.deadlines
    logic_results,     \* dict handed to FactChecker as logic_results
    timeline_results,  \* dict handed to FactChecker as timeline_results
    reasoning_results, \* dict handed to FactChecker as reasoning_results
    returned           \* per operation, the values its calls returned so far

vars == <<articles, graph, deadlines, logic_results, timeline_results,
          reasoning_results, returned>>

(***************************************************************************)
(* Bounds                                                                  *)
(***************************************************************************)
\* most calls of the operations in a behaviour of Spec
MaxCalls == 4
\* most calls of calculate_score on one FactChecker in SpecScore
MaxRepeats == 2
\* most sentences in the text of article 103
MaxSentences == 2

(***************************************************************************)
(* Phrases and substring search                                            *)
(***************************************************************************)
ArticleNos == {"16", "27", "28", "58", "103", "143"}

\* The needles the code searches for that occur inside phrase p.
Needles(p) ==
    CASE p = "den epitrepei tin tropopoiisi" ->
            {"den epitrepei tin tropopoiisi", "den epitrepei", "tropopoiisi"}
      [] p = "den epitrepetai" -> {"den epitrepetai"}
      [] p = "exetasi" -> {"exetasi"}
      [] p = "exetasis" -> {"exetasis", "exetasi"}
      [] p = "tropopoiisi" -> {"tropopoiisi"}
      [] p = "apallagi" -> {"apallagi"}
      [] p = "merisma" -> {"merisma"}
      [] p = "prothesmia" -> {"prothesmia"}
      [] p = "apokatastasi" -> {"apokatastasi"}
      [] p = "exi mines" -> {"exi mines"}
      [] p = "ena mono merisma" -> {"ena mono merisma", "merisma"}
      [] p = "arthro 58" -> {"58"}
      [] p = "58" -> {"58"}
      [] p = "oloklirothei i dimosia exetasi" ->
            {"oloklirothei i dimosia exetasi", "exetasi"}
      [] p = "tessera chronia" -> {"tessera chronia"}
      [] p = "tesseris eton" -> {"tesseris eton"}
      [] p = "tesseris mines" -> {"tesseris mines"}
      [] OTHER -> {}

\* Python `needle in sentence` for one sentence.
InSentence(needle, sentence) == \E p \in sentence : needle \in Needles(p)

\* Python `needle in text`.
InText(needle, text) ==
    \E i \in 1..Len(text) : InSentence(needle, text[i])

\* re.findall(r'arthr[oou]\s+(\d+)', text): the numbers cited by phrase p.
Cited(p) ==
    CASE p = "arthro 58" -> {"58"}
      [] p = "arthro 16" -> {"16"}
      [] p = "arthro 27" -> {"27"}
      [] p = "arthro 99" -> {"99"}
      [] OTHER -> {}

(***************************************************************************)
(* legal_parser.py: LegalArticle                                           *)
(***************************************************************************)
IsProhibition(sentence) ==
    InSentence("den epitrepei", sentence) \/ InSentence("den epitrepetai", sentence)

\* The first sentence, from index i on, that holds a prohibition; "" if none.
RECURSIVE FirstProhibition(_, _)
FirstProhibition(text, i) ==
    IF i > Len(text) THEN {}
    ELSE IF IsProhibition(text[i]) THEN text[i]
    ELSE FirstProhibition(text, i + 1)

_extract_constraint_phrase(text) == FirstProhibition(text, 1)

\* A pattern that takes every number of the text for a cited article.
_extract_references_loose(text) ==
    UNION {Cited(p) \cup (Needles(p) \cap {"58"}) :
             p \in UNION {text[i] : i \in 1..Len(text)}}

_extract_references(text) ==
    UNION {Cited(p) : p \in UNION {text[i] : i \in 1..Len(text)}}

\* The key terms in the order _parse appends them.
KeyTermOrder == <<"modification", "examination", "discharge", "dividend",
                  "deadline", "rehabilitation">>

HasKeyTerm(term, text) ==
    CASE term = "modification" -> InText("tropopoiisi", text)
      [] term = "examination" -> InText("exetasi", text) \/ InText("exetasis", text)
      [] term = "discharge" -> InText("apallagi", text)
      [] term = "dividend" -> InText("merisma", text)
      [] term = "deadline" -> InText("prothesmia", text)
      [] term = "rehabilitation" -> InText("apokatastasi", text)

_parse_key_terms(text) ==
    SelectSeq(KeyTermOrder, LAMBDA term : HasKeyTerm(term, text))

\* LegalArticle(article_data): the fields after __init__ and _parse.
LegalArticle(article_no, text) ==
    LET prohibited == InText("den epitrepei", text) \/ InText("den epitrepetai", text)
    IN [article_no |-> article_no,
        text |-> text,
        key_terms |-> _parse_key_terms(text),
        constraints |-> IF prohibited THEN <<"prohibition">> ELSE <<>>,
        critical_phrases |->
            IF prohibited THEN <<_extract_constraint_phrase(text)>> ELSE <<>>,
        references_to |-> _extract_references(text)]

(***************************************************************************)
(* The provision sets the behaviours start from                            *)
(***************************************************************************)
\* The phrases that may occur in the text of each article.
Vocabulary(article_no) ==
    CASE article_no = "103" ->
            {"den epitrepei tin tropopoiisi", "den epitrepetai", "exetasi"}
      [] article_no = "143" ->
            {"exi mines", "ena mono merisma", "arthro 58", "58", "tropopoiisi",
             "arthro 27"}
      [] article_no = "27" -> {"oloklirothei i dimosia exetasi"}
      [] article_no = "28" -> {"tessera chronia", "tesseris eton"}
      [] article_no = "58" -> {"tesseris mines"}
      [] OTHER -> {}

SentencesOf(article_no) == SUBSET Vocabulary(article_no)

SeqsUpTo(S, n) == UNION {[1..k -> S] : k \in 1..n}

\* Every phrase occurs at most once in a text: a text of several sentences
\* has no empty sentence and no phrase in two of them.
PhrasesOnce(text) ==
    \/ Len(text) = 1
    \/ /\ \A i \in 1..Len(text) : text[i] # {}
       /\ \A i, j \in 1..Len(text) : i < j => text[i] \cap text[j] = {}

\* Only the sentences of article 103 are told apart by the code (its
\* critical phrase is read); the other articles have one sentence.
Texts(article_no) ==
    IF article_no = "103"
    THEN {t \in SeqsUpTo(SentencesOf(article_no), MaxSentences) : PhrasesOnce(t)}
    ELSE SeqsUpTo(SentencesOf(article_no), 1)

\* The text without any phrase, and the text with all of them in one sentence.
Samples(article_no) == { <<{}>>, <<Vocabulary(article_no)>> }

(***************************************************************************)
(* Python dicts                                                            *)
(***************************************************************************)
EmptyDict == [k \in {} |-> 0]

\* d.get(k, default)
DictGet(d, k, default) == IF k \in DOMAIN d THEN d[k] ELSE default

\* d.update(attr): the keys of attr overwrite those of d, the others stay.
DictUpdate(d, attr) == attr @@ d

(***************************************************************************)
(* networkx.DiGraph: one attribute dict per node and per ordered pair      *)
(***************************************************************************)
EmptyGraph == [nodes |-> EmptyDict, edges |-> EmptyDict]

\* G.add_node(n, **attr)
add_node(G, n, attr) ==
    [G EXCEPT !.nodes = (n :> DictUpdate(DictGet(G.nodes, n, EmptyDict), attr)) @@ G.nodes]

\* MultiDiGraph.add_edge as seen through one dict per pair: every call adds a
\* parallel edge, counted under 'parallel'.
add_edge_parallel(G, u, v, attr) ==
    LET withU == IF u \in DOMAIN G.nodes THEN G.nodes ELSE (u :> EmptyDict) @@ G.nodes
        withV == IF v \in DOMAIN withU THEN withU ELSE (v :> EmptyDict) @@ withU
        old == DictGet(G.edges, <<u, v>>, EmptyDict)
    IN [nodes |-> withV,
        edges |-> (<<u, v>> :> DictUpdate(DictUpdate(old, attr),
                                          [parallel |-> DictGet(old, "parallel", 0) + 1]))
                  @@ G.edges]

\* G.add_edge(u, v, **attr): missing endpoints become nodes; an existing
\* edge u -> v keeps its dict, updated with attr.
add_edge(G, u, v, attr) ==
    LET withU == IF u \in DOMAIN G.nodes THEN G.nodes ELSE (u :> EmptyDict) @@ G.nodes
        withV == IF v \in DOMAIN withU THEN withU ELSE (v :> EmptyDict) @@ withU
    IN [nodes |-> withV,
        edges |-> (<<u, v>> :> DictUpdate(DictGet(G.edges, <<u, v>>, EmptyDict), attr))
                  @@ G.edges]

\* `n in G`
HasNode(G, n) == n \in DOMAIN G.nodes

\* G.has_edge(u, v)
has_edge(G, u, v) == <<u, v>> \in DOMAIN G.edges

\* Apply step(G, x) for every x of the finite set S, one after the other.
RECURSIVE FoldSet(_, _, _)
FoldSet(step(_, _), G, S) ==
    IF S = {} THEN G
    ELSE LET x == CHOOSE y \in S : TRUE
         IN FoldSet(step, step(G, x), S \ {x})

(***************************************************************************)
(* cross_reference_analyzer.py: CrossReferenceAnalyzer                     *)
(***************************************************************************)
\* The four curated edges of _add_interpretation_edges, in source order.
InterpretationEdges ==
    << [u |-> "103", v |-> "143", relationship |-> "enables"],
       [u |-> "143", v |-> "58", relationship |-> "modifies"],
       [u |-> "27", v |-> "16", relationship |-> "requires"],
       [u |-> "28", v |-> "27", relationship |-> "alternative"] >>

\* The curated edge added without asking whether its endpoints are nodes.
AddInterpretationEdgeAlways(G, e) ==
    add_edge(G, e.u, e.v, [relationship |-> e.relationship, critical |-> TRUE])

\* The curated edge added from its target to its source.
AddInterpretationEdgeReversed(G, e) ==
    IF HasNode(G, e.u) /\ HasNode(G, e.v)
    THEN add_edge(G, e.v, e.u, [relationship |-> e.relationship, critical |-> TRUE])
    ELSE G

\* One `if u in self.graph and v in self.graph: add_edge(...)` statement.
AddInterpretationEdge(G, e) ==
    IF HasNode(G, e.u) /\ HasNode(G, e.v)
    THEN add_edge(G, e.u, e.v, [relationship |-> e.relationship, critical |-> TRUE])
    ELSE G

_add_interpretation_edges(G) ==
    LET g1 == AddInterpretationEdge(G, InterpretationEdges[1])
        g2 == AddInterpretationEdge(g1, InterpretationEdges[2])
        g3 == AddInterpretationEdge(g2, InterpretationEdges[3])
    IN AddInterpretationEdge(g3, InterpretationEdges[4])

\* First loop of build_graph: one node per article.
AddArticleNode(G, article_no) ==
    add_node(G, article_no,
             [has_constraints |-> articles[article_no].constraints # <<>>,
              key_terms |-> articles[article_no].key_terms])

\* Second loop of build_graph: a 'references' edge per loaded reference.
AddReferenceEdge(G, pair) ==
    add_edge(G, pair[1], pair[2], [relationship |-> "references"])

\* Every reference of a loaded article, whether its target is loaded or not.
AllReferences ==
    UNION {{<<article_no, ref>> : ref \in articles[article_no].references_to} :
             article_no \in DOMAIN articles}

LoadedReferences ==
    {<<article_no, ref>> \in (DOMAIN articles) \X (DOMAIN articles) :
        ref \in articles[article_no].references_to}

\* The graph build_graph leaves in self.graph when it starts from G.
BuildFrom(G) ==
    LET withNodes == FoldSet(AddArticleNode, G, DOMAIN articles)
        withRefs == FoldSet(AddReferenceEdge, withNodes, LoadedReferences)
    IN _add_interpretation_edges(withRefs)

\* find_interpretation_chain: the chain it returns.
ChainOrder == <<"103", "143", "58", "27", "28", "16">>

find_interpretation_chain == SelectSeq(ChainOrder, LAMBDA n : HasNode(graph, n))

\* detect_conflicts: the list it returns.
ProhibitionConflict ==
    [type |-> "prohibition_vs_modification", articles |-> <<"103", "143">>,
     severity |-> "high", critical |-> TRUE]

\* The second rule's conflict with the severity of the first rule.
TimelineConflictHigh ==
    [type |-> "timeline_inconsistency", articles |-> <<"143", "28">>,
     severity |-> "high", critical |-> TRUE]

TimelineConflict ==
    [type |-> "timeline_inconsistency", articles |-> <<"143", "28">>,
     severity |-> "medium", critical |-> TRUE]

InSeq(x, s) == \E i \in 1..Len(s) : s[i] = x

\* detect_conflicts with the second rule as an elif of the first.
detect_conflicts_exclusive ==
    IF /\ "103" \in DOMAIN articles
       /\ "143" \in DOMAIN articles
       /\ InSeq("prohibition", articles["103"].constraints)
       /\ InSeq("modification", articles["143"].key_terms)
    THEN <<ProhibitionConflict>>
    ELSE IF "143" \in DOMAIN articles /\ "28" \in DOMAIN articles
         THEN <<[type |-> "timeline_inconsistency", articles |-> <<"143", "28">>,
                 severity |-> "medium", critical |-> TRUE]>>
         ELSE <<>>

\* detect_conflicts with the first rule silenced once the graph links 103
\* to 143.
detect_conflicts_unlinked ==
    LET c1 == IF /\ "103" \in DOMAIN articles
                 /\ "143" \in DOMAIN articles
                 /\ InSeq("prohibition", articles["103"].constraints)
                 /\ InSeq("modification", articles["143"].key_terms)
                 /\ ~has_edge(graph, "103", "143")
              THEN <<ProhibitionConflict>> ELSE <<>>
        c2 == IF "143" \in DOMAIN articles /\ "28" \in DOMAIN articles
              THEN <<[type |-> "timeline_inconsistency", articles |-> <<"143", "28">>,
                      severity |-> "medium", critical |-> TRUE]>> ELSE <<>>
    IN c1 \o c2

detect_conflicts ==
    LET c1 == IF /\ "103" \in DOMAIN articles
                 /\ "143" \in DOMAIN articles
                 /\ InSeq("prohibition", articles["103"].constraints)
                 /\ InSeq("modification", articles["143"].key_terms)
              THEN <<ProhibitionConflict>> ELSE <<>>
        c2 == IF "143" \in DOMAIN articles /\ "28" \in DOMAIN articles
              THEN <<TimelineConflict>> ELSE <<>>
    IN c1 \o c2

\* The two directions taken for each other.
get_article_dependencies_swapped(article_no) ==
    IF HasNode(graph, article_no)
    THEN [depends_on |-> {e[1] : e \in {d \in DOMAIN graph.edges : d[2] = article_no}},
          depended_by |-> {e[2] : e \in {d \in DOMAIN graph.edges : d[1] = article_no}}]
    ELSE [depends_on |-> {}, depended_by |-> {}]

\* get_article_dependencies(article_no), as sets of node ids.
get_article_dependencies(article_no) ==
    IF HasNode(graph, article_no)
    THEN [depends_on |-> {e[2] : e \in {d \in DOMAIN graph.edges : d[1] = article_no}},
          depended_by |-> {e[1] : e \in {d \in DOMAIN graph.edges : d[2] = article_no}}]
    ELSE [depends_on |-> {}, depended_by |-> {}]

(***************************************************************************)
(* logic_validator.py: LogicValidator                                      *)
(***************************************************************************)
\* The phrases of art103.critical_phrases that hold the verbatim prohibition
\* and the examination subject (the loop of _check_prohibition_exists).
ProhibitionPhrases(article) ==
    SelectSeq(article.critical_phrases,
              LAMBDA phrase : /\ InSentence("den epitrepei tin tropopoiisi", phrase)
                              /\ InSentence("exetasi", phrase))

\* The check without its early return: an absent 103 is rated like a 103
\* without the phrase.
_check_prohibition_exists_unguarded ==
    LET check == [name |-> "article_103_prohibition",
                  description |-> "103(2): apagorefsi tropopoiisis diataxeon exetasis",
                  points_possible |-> 8,
                  points_awarded |-> 3,
                  supports_interpretation |-> FALSE,
                  evidence |-> <<>>]
    IN IF "103" \in DOMAIN articles /\ ProhibitionPhrases(articles["103"]) # <<>>
       THEN [check EXCEPT !.points_awarded = 8,
                          !.supports_interpretation = TRUE,
                          !.evidence = <<[keimeno |-> ProhibitionPhrases(articles["103"])[1]]>>]
       ELSE check

_check_prohibition_exists ==
    LET check == [name |-> "article_103_prohibition",
                  description |-> "103(2): apagorefsi tropopoiisis diataxeon exetasis",
                  points_possible |-> 8,
                  points_awarded |-> 0,
                  supports_interpretation |-> FALSE,
                  evidence |-> <<>>]
    IN IF "103" \notin DOMAIN articles THEN check
       ELSE LET found == ProhibitionPhrases(articles["103"])
            IN IF found # <<>>
               THEN [check EXCEPT !.points_awarded = 8,
                                  !.supports_interpretation = TRUE,
                                  !.evidence = <<[keimeno |-> found[1]]>>]
               ELSE [check EXCEPT !.points_awarded = 3]

_check_regulation_143_modifications ==
    LET check == [name |-> "regulation_143_modifications",
                  description |-> "143: tropopoiisi prothesmias se 6 mines",
                  points_possible |-> 7,
                  points_awarded |-> 0,
                  supports_interpretation |-> FALSE,
                  evidence |-> <<>>]
    IN IF "143" \notin DOMAIN articles THEN check
       ELSE LET art143 == articles["143"]
                six_months_found == InText("exi mines", art143.text)
                single_dividend_found == InText("ena mono merisma", art143.text)
                modifies_58 == "58" \in art143.references_to
                points == (IF six_months_found THEN 3 ELSE 0)
                          + (IF single_dividend_found THEN 2 ELSE 0)
                          + (IF modifies_58 THEN 2 ELSE 0)
            IN [check EXCEPT
                  !.points_awarded = points,
                  !.supports_interpretation = (points >= 5),
                  !.evidence = (IF six_months_found THEN <<"143(i) 6 mines">> ELSE <<>>)
                               \o (IF single_dividend_found THEN <<"143(ii) ena mono merisma">> ELSE <<>>)
                               \o (IF modifies_58 THEN <<"anaferetai sto arthro 58(2)">> ELSE <<>>)]

supporting_logic ==
    <<"27 apaitei oloklirosi exetasis", "143 orizei 6mini prothesmia",
      "ena mono merisma simainei tacheia oloklirosi",
      "exetasi prepei na oloklirothei entos 6 minon">>

contradicting_logic ==
    <<"103(2) anaferetai se diataxeis exetasis", "143 anaferetai se prothesmia merismatos",
      "to merisma einai oikonomiki diadikasia", "28 dinei 4eti prothesmia">>

\* The check made to look at the provisions: the argument from article 28
\* counts only when 28 is loaded.
_check_modification_equivalence_computed ==
    [name |-> "modification_equivalence",
     description |-> "tropopoiisi chronou merismatos = tropopoiisi exetasis;",
     points_possible |-> 10,
     points_awarded |-> IF "28" \in DOMAIN articles THEN 4 ELSE 5,
     supports_interpretation |-> FALSE,
     evidence |-> supporting_logic
                  \o (IF "28" \in DOMAIN articles THEN contradicting_logic
                      ELSE SubSeq(contradicting_logic, 1, 3)),
     ambiguity_level |-> "high"]

_check_modification_equivalence ==
    [name |-> "modification_equivalence",
     description |-> "tropopoiisi chronou merismatos = tropopoiisi exetasis;",
     points_possible |-> 10,
     points_awarded |-> 4,
     supports_interpretation |-> FALSE,
     evidence |-> supporting_logic \o contradicting_logic,
     ambiguity_level |-> "high"]

\* The check with its awarded points counted as support.
_check_single_dividend_implication_supporting ==
    LET check == [name |-> "single_dividend_implication",
                  description |-> "ena mono merisma -> ypochreosi apokatastasis;",
                  points_possible |-> 5,
                  points_awarded |-> 0,
                  supports_interpretation |-> FALSE,
                  evidence |-> <<>>]
    IN IF "143" \notin DOMAIN articles THEN check
       ELSE IF InText("ena mono merisma", articles["143"].text)
            THEN [check EXCEPT !.points_awarded = 2,
                               !.supports_interpretation = TRUE,
                               !.evidence = <<"143(ii) dianomi se ena mono merisma">>]
            ELSE check

_check_single_dividend_implication ==
    LET check == [name |-> "single_dividend_implication",
                  description |-> "ena mono merisma -> ypochreosi apokatastasis;",
                  points_possible |-> 5,
                  points_awarded |-> 0,
                  supports_interpretation |-> FALSE,
                  evidence |-> <<>>]
    IN IF "143" \notin DOMAIN articles THEN check
       ELSE IF InText("ena mono merisma", articles["143"].text)
            THEN [check EXCEPT !.points_awarded = 2,
                               !.supports_interpretation = FALSE,
                               !.evidence = <<"143(ii) dianomi se ena mono merisma">>]
            ELSE check

\* sum of c.points_awarded over the list cs
RECURSIVE SumPointsButLast(_)
\* The sum with the loop stopping one check short.
SumPointsButLast(cs) ==
    IF Len(cs) <= 1 THEN 0
    ELSE cs[1].points_awarded
         + SumPointsButLast([i \in 1..(Len(cs) - 1) |-> cs[i + 1]])

RECURSIVE SumPoints(_)
SumPoints(cs) == IF cs = <<>> THEN 0 ELSE Head(cs).points_awarded + SumPoints(Tail(cs))

Descriptions(cs) == [i \in 1..Len(cs) |-> cs[i].description]

\* The loop over results['checks'] that fills the two factor lists.
supporting_factors(checks) ==
    Descriptions(SelectSeq(checks, LAMBDA c : c.supports_interpretation))

\* The else branch taken only by checks that scored nothing.
contradicting_factors_unscored(checks) ==
    Descriptions(SelectSeq(checks, LAMBDA c : c.points_awarded = 0))

contradicting_factors(checks) ==
    Descriptions(SelectSeq(checks, LAMBDA c : ~c.supports_interpretation))

\* _generate_summary: the rating line (score_pct = score / max_score * 100).
_generate_summary(score, max_score) ==
    IF score * 100 >= 70 * max_score THEN "ISCHYRI"
    ELSE IF score * 100 >= 50 * max_score THEN "METRIA"
    ELSE "ADYNAMI"

validate_interpretation ==
    LET checks == << _check_prohibition_exists,
                     _check_regulation_143_modifications,
                     _check_modification_equivalence,
                     _check_single_dividend_implication >>
        score == SumPoints(checks)
    IN [score |-> score,
        max_score |-> 30,
        checks |-> checks,
        summary |-> _generate_summary(score, 30),
        supporting_factors |-> supporting_factors(checks),
        contradicting_factors |-> contradicting_factors(checks)]

\* validate_article_chain on the validator's graph G.
validate_article_chain(G) ==
    LET breaks ==
          (IF HasNode(G, "103") /\ HasNode(G, "143") /\ ~has_edge(G, "103", "143")
           THEN << <<"103", "143">> >> ELSE <<>>)
          \o (IF HasNode(G, "143") /\ HasNode(G, "58") /\ ~has_edge(G, "143", "58")
              THEN << <<"143", "58">> >> ELSE <<>>)
    IN [valid |-> (Len(breaks) = 0),
        breaks |-> breaks,
        chain |-> <<"103", "143", "58", "27", "28", "16">>]

(***************************************************************************)
(* timeline_analyzer.py: TimelineAnalyzer                                  *)
(***************************************************************************)
Deadline58 ==
    [article |-> "58(2)", duration |-> "4 mines", duration_days |-> 120,
     mandatory |-> TRUE, can_extend |-> TRUE,
     extension_conditions |-> "eparkis logos"]

\* The 6-month deadline recorded as mandatory.
Deadline143Mandatory ==
    [article |-> "143(i)", duration |-> "6 mines", duration_days |-> 180,
     mandatory |-> TRUE, can_extend |-> FALSE,
     extension_conditions |-> "kata tin krisi tou Episimou Paralipti"]

Deadline143 ==
    [article |-> "143(i)", duration |-> "6 mines", duration_days |-> 180,
     mandatory |-> FALSE, can_extend |-> FALSE,
     extension_conditions |-> "kata tin krisi tou Episimou Paralipti"]

Deadline28 ==
    [article |-> "28", duration |-> "4 eti", duration_days |-> 1460,
     mandatory |-> TRUE, can_extend |-> FALSE,
     extension_conditions |-> "None"]

\* _extract_deadlines: self.deadlines after the call, given it before.
_extract_deadlines(dl) ==
    dl
    \o (IF "58" \in DOMAIN articles /\ InText("tesseris mines", articles["58"].text)
        THEN <<Deadline58>> ELSE <<>>)
    \o (IF "143" \in DOMAIN articles /\ InText("exi mines", articles["143"].text)
        THEN <<Deadline143>> ELSE <<>>)
    \o (IF /\ "28" \in DOMAIN articles
           /\ \/ InText("tessera chronia", articles["28"].text)
              \/ InText("tesseris eton", articles["28"].text)
        THEN <<Deadline28>> ELSE <<>>)

\* `tag in [d.article for d in self.deadlines]`
HasDeadline(dl, tag) == \E i \in 1..Len(dl) : dl[i].article = tag

Min(a, b) == IF a <= b THEN a ELSE b
Max(a, b) == IF a >= b THEN a ELSE b

\* The clarity score counting the entries of the list, not the provisions.
_score_deadline_clarity_counting(dl) ==
    Min(2 * Len(SelectSeq(dl, LAMBDA d : d.article = "58(2)"))
        + 2 * Len(SelectSeq(dl, LAMBDA d : d.article = "143(i)"))
        + Len(SelectSeq(dl, LAMBDA d : d.article = "28")), 5)

_score_deadline_clarity(dl) ==
    Min((IF HasDeadline(dl, "58(2)") THEN 2 ELSE 0)
        + (IF HasDeadline(dl, "143(i)") THEN 2 ELSE 0)
        + (IF HasDeadline(dl, "28") THEN 1 ELSE 0), 5)

MismatchConflict ==
    [type |-> "timeline_mismatch", severity |-> "high", articles |-> <<"143(i)", "28">>]

ImplicitConflict ==
    [type |-> "implicit_connection", severity |-> "medium", articles |-> <<"143(i)", "27">>]

\* _check_timeline_consistency with the mismatch reported when either of
\* the two deadlines was extracted.
_check_timeline_consistency_either(dl) ==
    LET six_month_deadline == HasDeadline(dl, "143(i)")
        four_year_deadline == HasDeadline(dl, "28")
        either == six_month_deadline \/ four_year_deadline
        score == 8 - (IF either THEN 5 ELSE 0) - (IF six_month_deadline THEN 2 ELSE 0)
    IN [score |-> Max(score, 0),
        conflicts |-> (IF either THEN <<MismatchConflict>> ELSE <<>>)
                      \o (IF six_month_deadline THEN <<ImplicitConflict>> ELSE <<>>)]

\* _check_timeline_consistency: (score, conflicts)
_check_timeline_consistency(dl) ==
    LET six_month_deadline == HasDeadline(dl, "143(i)")
        four_year_deadline == HasDeadline(dl, "28")
        both == six_month_deadline /\ four_year_deadline
        score == 8 - (IF both THEN 5 ELSE 0) - (IF six_month_deadline THEN 2 ELSE 0)
    IN [score |-> Max(score, 0),
        conflicts |-> (IF both THEN <<MismatchConflict>> ELSE <<>>)
                      \o (IF six_month_deadline THEN <<ImplicitConflict>> ELSE <<>>)]

\* next((d for d in self.deadlines if d.article == tag), None); dl holds one.
FirstDeadline(dl, tag) ==
    dl[CHOOSE i \in 1..Len(dl) :
          /\ dl[i].article = tag
          /\ \A j \in 1..(i - 1) : dl[j].article # tag]

_score_implication_strength(dl) ==
    IF ~HasDeadline(dl, "143(i)") THEN 0
    ELSE LET six_month == FirstDeadline(dl, "143(i)")
             score == (IF six_month.mandatory THEN 3 ELSE 0)
                      + (IF /\ "143" \in DOMAIN articles
                            /\ InText("ena mono merisma", articles["143"].text)
                         THEN 2 ELSE 0)
                      + (IF /\ "27" \in DOMAIN articles
                            /\ InText("oloklirothei i dimosia exetasi", articles["27"].text)
                         THEN 1 ELSE 0)
                      - (IF "28" \in DOMAIN articles THEN 1 ELSE 0)
         IN Max(score, 0)

\* analyze_deadlines: the dict it returns, dl being self.deadlines after
\* _extract_deadlines ran.
analyze_deadlines(dl) ==
    LET consistency == _check_timeline_consistency(dl)
        score_breakdown ==
            [deadline_clarity |-> _score_deadline_clarity(dl),
             consistency |-> consistency.score,
             implication_strength |-> _score_implication_strength(dl)]
    IN [score |-> score_breakdown.deadline_clarity + score_breakdown.consistency
                  + score_breakdown.implication_strength,
        max_score |-> 20,
        deadlines |-> dl,
        conflicts |-> consistency.conflicts,
        score_breakdown |-> score_breakdown]

(***************************************************************************)
(* fact_checker.py: FactChecker                                            *)
(***************************************************************************)
\* Factor 4 awarded for the number 58 in 143 whether or not 58 is loaded.
_score_text_support_unloaded_58 ==
    LET factor1 == IF /\ "103" \in DOMAIN articles
                      /\ InText("den epitrepei tin tropopoiisi", articles["103"].text)
                      /\ InText("exetasi", articles["103"].text)
                   THEN 15 ELSE 0
        factor2 == IF "143" \in DOMAIN articles
                   THEN (IF InText("exi mines", articles["143"].text) THEN 6 ELSE 0)
                        + (IF InText("ena mono merisma", articles["143"].text) THEN 6 ELSE 0)
                   ELSE 0
        factor3 == IF /\ "27" \in DOMAIN articles
                      /\ InText("oloklirothei i dimosia exetasi", articles["27"].text)
                   THEN 8 ELSE 0
        factor4 == IF /\ "143" \in DOMAIN articles
                      /\ InText("58", articles["143"].text)
                   THEN 5 ELSE 0
    IN IF factor1 + factor2 + factor3 + factor4 <= 40
       THEN factor1 + factor2 + factor3 + factor4 ELSE 40

_score_text_support ==
    LET factor1 == IF /\ "103" \in DOMAIN articles
                      /\ InText("den epitrepei tin tropopoiisi", articles["103"].text)
                      /\ InText("exetasi", articles["103"].text)
                   THEN 15 ELSE 0
        factor2 == IF "143" \in DOMAIN articles
                   THEN (IF InText("exi mines", articles["143"].text) THEN 6 ELSE 0)
                        + (IF InText("ena mono merisma", articles["143"].text) THEN 6 ELSE 0)
                   ELSE 0
        factor3 == IF /\ "27" \in DOMAIN articles
                      /\ InText("oloklirothei i dimosia exetasi", articles["27"].text)
                   THEN 8 ELSE 0
        factor4 == IF /\ "58" \in DOMAIN articles
                      /\ "143" \in DOMAIN articles
                      /\ InText("58", articles["143"].text)
                   THEN 5 ELSE 0
    IN Min(factor1 + factor2 + factor3 + factor4, 40)

\* A precedent score that reads the provisions: full marks when 28 is loaded.
_score_precedent_from_28 == IF "28" \in DOMAIN articles THEN 10 ELSE 5

_score_precedent == 5

\* The first threshold compared with > instead of >=.
_determine_category_strict(total) ==
    IF total > 80 THEN "Strongly Supported"
    ELSE IF total >= 65 THEN "Moderately Supported"
    ELSE IF total >= 50 THEN "Partially Supported"
    ELSE IF total >= 35 THEN "Weakly Supported"
    ELSE "Not Supported"

_determine_category(total) ==
    IF total >= 80 THEN "Strongly Supported"
    ELSE IF total >= 65 THEN "Moderately Supported"
    ELSE IF total >= 50 THEN "Partially Supported"
    ELSE IF total >= 35 THEN "Weakly Supported"
    ELSE "Not Supported"

\* len([amb for amb in ambiguities if amb.get('importance') == 'critical'])
CriticalAmbiguities(reasoning) ==
    Len(SelectSeq(DictGet(reasoning, "ambiguities", <<>>),
                  LAMBDA amb : DictGet(amb, "importance", "None") = "critical"))

\* Confidence lowered by any ambiguity, whatever its importance.
_determine_confidence_any(total, reasoning) ==
    IF Len(DictGet(reasoning, "ambiguities", <<>>)) > 0
    THEN IF total >= 70 THEN "Moderate Confidence" ELSE "Low Confidence"
    ELSE IF total >= 70 THEN "High Confidence"
         ELSE IF total >= 50 THEN "Moderate Confidence"
         ELSE "Low Confidence"

_determine_confidence(total, reasoning) ==
    IF CriticalAmbiguities(reasoning) > 0
    THEN IF total >= 70 THEN "Moderate Confidence" ELSE "Low Confidence"
    ELSE IF total >= 70 THEN "High Confidence"
         ELSE IF total >= 50 THEN "Moderate Confidence"
         ELSE "Low Confidence"

\* _get_status: percentage = score / max_score * 100 against 75 and 50.
_get_status(score, max_score) ==
    IF score * 100 >= 75 * max_score THEN "strong"
    ELSE IF score * 100 >= 50 * max_score THEN "moderate"
    ELSE "weak"

_create_breakdown(score) ==
    [text_support |-> [score |-> score.text_support, max |-> 40,
                       status |-> _get_status(score.text_support, 40)],
     logic |-> [score |-> score.logic_score, max |-> 30,
                status |-> _get_status(score.logic_score, 30)],
     timeline |-> [score |-> score.timeline_score, max |-> 20,
                   status |-> _get_status(score.timeline_score, 20)],
     precedent |-> [score |-> score.precedent, max |-> 10,
                    status |-> _get_status(score.precedent, 10)]]

\* FactChecker(articles, logic, timeline, reasoning).calculate_score():
\* the dict it returns.
calculate_score(logic, timeline, reasoning) ==
    LET c == [text_support |-> _score_text_support,
              logic_score |-> DictGet(logic, "score", 0),
              timeline_score |-> DictGet(timeline, "score", 0),
              precedent |-> _score_precedent]
        total == c.text_support + c.logic_score + c.timeline_score + c.precedent
    IN [total |-> total,
        max_total |-> 100,
        text_support |-> c.text_support,
        logic_score |-> c.logic_score,
        timeline_score |-> c.timeline_score,
        precedent |-> c.precedent,
        category |-> _determine_category(total),
        confidence |-> _determine_confidence(total, reasoning),
        breakdown |-> _create_breakdown(c)]

(***************************************************************************)
(* Operations                                                              *)
(***************************************************************************)
NoCalls ==
    [build_graph |-> <<>>, detect_conflicts |-> <<>>,
     validate_interpretation |-> <<>>, analyze_deadlines |-> <<>>,
     calculate_score |-> <<>>, find_interpretation_chain |-> <<>>,
     validate_article_chain |-> <<>>]

Calls(op) == Len(returned[op])

Record(op, value) == [returned EXCEPT ![op] = Append(@, value)]

\* analyzer.build_graph(): self.graph is built upon and returned.
BuildGraph ==
    /\ graph' = BuildFrom(graph)
    /\ returned' = Record("build_graph", graph')
    /\ UNCHANGED <<articles, deadlines, logic_results, timeline_results,
                   reasoning_results>>

\* detect_conflicts writing the timeline conflict it found into the graph
\* as an edge.
DetectConflictsMarking ==
    /\ returned' = Record("detect_conflicts",
                          [edges |-> DOMAIN graph.edges, conflicts |-> detect_conflicts])
    /\ graph' = IF InSeq(TimelineConflict, detect_conflicts)
                THEN add_edge(graph, "143", "28", [relationship |-> "conflict"])
                ELSE graph
    /\ UNCHANGED <<articles, deadlines, logic_results, timeline_results,
                   reasoning_results>>

\* analyzer.detect_conflicts(); the edges of the graph at the call are
\* kept with the returned list.
DetectConflicts ==
    /\ returned' = Record("detect_conflicts",
                          [edges |-> DOMAIN graph.edges, conflicts |-> detect_conflicts])
    /\ UNCHANGED <<articles, graph, deadlines, logic_results, timeline_results,
                   reasoning_results>>

\* logic_results = validator.validate_interpretation()
ValidateInterpretation ==
    /\ logic_results' = validate_interpretation
    /\ returned' = Record("validate_interpretation", logic_results')
    /\ UNCHANGED <<articles, graph, deadlines, timeline_results, reasoning_results>>

\* timeline_results = timeline.analyze_deadlines()
AnalyzeDeadlines ==
    /\ deadlines' = _extract_deadlines(deadlines)
    /\ timeline_results' = analyze_deadlines(deadlines')
    /\ returned' = Record("analyze_deadlines", timeline_results')
    /\ UNCHANGED <<articles, graph, logic_results, reasoning_results>>

\* FactChecker(articles, logic_results, timeline_results,
\*             reasoning_results).calculate_score()
CalculateScore ==
    /\ returned' = Record("calculate_score",
                          calculate_score(logic_results, timeline_results,
                                          reasoning_results))
    /\ UNCHANGED <<articles, graph, deadlines, logic_results, timeline_results,
                   reasoning_results>>

\* analyzer.find_interpretation_chain(); the list self.chains it appends
\* to is read by no operation.
FindInterpretationChain ==
    /\ returned' = Record("find_interpretation_chain", find_interpretation_chain)
    /\ UNCHANGED <<articles, graph, deadlines, logic_results, timeline_results,
                   reasoning_results>>

\* validator.validate_article_chain(), the validator holding the graph
\* build_graph returned.
ValidateArticleChain ==
    /\ returned' = Record("validate_article_chain", validate_article_chain(graph))
    /\ UNCHANGED <<articles, graph, deadlines, logic_results, timeline_results,
                   reasoning_results>>

\* The analyzer keeps the caller's dict itself (self.articles = articles):
\* a provision the caller deletes from it is gone from self.articles.
RemoveProvision ==
    /\ \E article_no \in DOMAIN articles :
          articles' = [a \in DOMAIN articles \ {article_no} |-> articles[a]]
    /\ UNCHANGED <<graph, deadlines, logic_results, timeline_results,
                   reasoning_results, returned>>

(***************************************************************************)
(* Initial states                                                          *)
(***************************************************************************)
\* load_article per file: no article (<<>>), or the article parsed from one
\* of the texts of Corpus.
Loads(article_no, Corpus(_)) ==
    { <<>> } \cup { <<LegalArticle(article_no, text)>> : text \in Corpus(article_no) }

\* load_all_articles: the articles dict for one load per file.
Repository(load) ==
    [article_no \in {a \in ArticleNos : load[a] # <<>>} |-> load[article_no][1]]

\* Every articles dict whose loaded articles take their text from Corpus.
Repositories(Corpus(_)) ==
    { Repository([a \in ArticleNos |->
                    CASE a = "16" -> l16 [] a = "27" -> l27 [] a = "28" -> l28
                      [] a = "58" -> l58 [] a = "103" -> l103 [] a = "143" -> l143]) :
        l16 \in Loads("16", Corpus), l27 \in Loads("27", Corpus),
        l28 \in Loads("28", Corpus), l58 \in Loads("58", Corpus),
        l103 \in Loads("103", Corpus), l143 \in Loads("143", Corpus) }

\* Objects as their constructors leave them.
Fresh ==
    /\ graph = EmptyGraph
    /\ deadlines = <<>>
    /\ returned = NoCalls

\* reasoning.analyze() belongs to a collaborator outside this model; the
\* pipeline specifications take a result without ambiguities.
NoAmbiguities == [ambiguities |-> <<>>]

(***************************************************************************)
(* Spec: the five operations in any order, MaxCalls calls in all, over the *)
(* sample texts.                                                           *)
(***************************************************************************)
Init ==
    /\ articles \in Repositories(Samples)
    /\ logic_results = EmptyDict
    /\ timeline_results = EmptyDict
    /\ reasoning_results = NoAmbiguities
    /\ Fresh

\* main() builds the FactChecker once both batteries have returned.
ResultsReady ==
    Calls("validate_interpretation") > 0 /\ Calls("analyze_deadlines") > 0

Stage ==
    Calls("build_graph") + Calls("detect_conflicts") + Calls("validate_interpretation")
    + Calls("analyze_deadlines") + Calls("calculate_score")

Budget == Stage < MaxCalls

Next ==
    \/ (Budget /\ BuildGraph)
    \/ (Budget /\ DetectConflicts)
    \/ (Budget /\ ValidateInterpretation)
    \/ (Budget /\ AnalyzeDeadlines)
    \/ (Budget /\ ResultsReady /\ CalculateScore)

Spec == Init /\ [][Next]_vars

(***************************************************************************)
(* SpecPipeline: one run of main() over every text of every article,       *)
(* followed (as in the tests) by detect_conflicts on the built graph.      *)
(***************************************************************************)
InitPipeline ==
    /\ articles \in Repositories(Texts)
    /\ logic_results = EmptyDict
    /\ timeline_results = EmptyDict
    /\ reasoning_results = NoAmbiguities
    /\ Fresh

\* main(): build_graph, validate_interpretation, analyze_deadlines and
\* calculate_score on freshly constructed objects, one after the other.
Main ==
    \E reference_graph \in {BuildFrom(graph)},
       logic \in {validate_interpretation},
       extracted \in {_extract_deadlines(deadlines)} :
       \E timeline \in {analyze_deadlines(extracted)} :
          \E final_score \in {calculate_score(logic, timeline, reasoning_results)} :
             /\ graph' = reference_graph
             /\ logic_results' = logic
             /\ deadlines' = extracted
             /\ timeline_results' = timeline
             /\ returned' = [returned EXCEPT
                               !.build_graph = Append(@, reference_graph),
                               !.validate_interpretation = Append(@, logic),
                               !.analyze_deadlines = Append(@, timeline),
                               !.calculate_score = Append(@, final_score)]
             /\ UNCHANGED <<articles, reasoning_results>>

NextPipeline ==
    \/ (Stage = 0 /\ Main)
    \/ (Calls("calculate_score") = 1 /\ Calls("detect_conflicts") = 0 /\ DetectConflicts)

SpecPipeline == InitPipeline /\ [][NextPipeline]_vars

(***************************************************************************)
(* SpecScore: calculate_score on a FactChecker built from any results.     *)
(***************************************************************************)
\* how far outside 0..max_score a handed 'score' may lie
ScoreSlack == 2

Ambiguity(importance) == [importance |-> importance]

ReasoningResults ==
    { EmptyDict,
      [ambiguities |-> <<Ambiguity("high")>>],
      [ambiguities |-> <<Ambiguity("high"), Ambiguity("critical")>>],
      [ambiguities |-> <<[description |-> "asafeia"], Ambiguity("critical"),
                         Ambiguity("critical")>>] }

\* Articles 103, 143, 27 and 58 (those _score_text_support reads), each
\* absent or with all its phrases.
ScoredRepositories ==
    { [a \in ids |-> LegalArticle(a, <<Vocabulary(a)>>)] :
        ids \in SUBSET {"103", "143", "27", "58"} }

InitScore ==
    /\ articles \in ScoredRepositories
    /\ logic_results \in {[score |-> n] : n \in (0 - ScoreSlack)..(30 + ScoreSlack)}
    /\ timeline_results \in {[score |-> n] : n \in (0 - ScoreSlack)..(20 + ScoreSlack)}
    /\ reasoning_results \in ReasoningResults
    /\ Fresh

NextScore == Calls("calculate_score") < MaxRepeats /\ CalculateScore

SpecScore == InitScore /\ [][NextScore]_vars

(***************************************************************************)
(* SpecRebuild: build_graph called MaxRepeats times on one analyzer, the   *)
(* caller deleting provisions from the dict between the calls.             *)
(***************************************************************************)
NextRebuild ==
    \/ (Calls("build_graph") < MaxRepeats /\ BuildGraph)
    \/ (Calls("build_graph") \in 1..(MaxRepeats - 1) /\ RemoveProvision)

SpecRebuild == Init /\ [][NextRebuild]_vars

(***************************************************************************)
(* SpecFrame: the operations of Spec and the two chain readers in any      *)
(* order, MaxCalls calls in all.                                           *)
(***************************************************************************)
BudgetFrame ==
    Stage + Calls("find_interpretation_chain") + Calls("validate_article_chain")
    < MaxCalls

NextFrame ==
    \/ (BudgetFrame /\ BuildGraph)
    \/ (BudgetFrame /\ DetectConflicts)
    \/ (BudgetFrame /\ FindInterpretationChain)
    \/ (BudgetFrame /\ ValidateInterpretation)
    \/ (BudgetFrame /\ ValidateArticleChain)
    \/ (BudgetFrame /\ AnalyzeDeadlines)
    \/ (BudgetFrame /\ ResultsReady /\ CalculateScore)

SpecFrame == Init /\ [][NextFrame]_vars

(***************************************************************************)
(* Properties                                                              *)
(***************************************************************************)
\* The values an operation has returned so far.
Results(op) == {returned[op][i] : i \in 1..Calls(op)}

\* C1: for every provision set, the pipeline build_graph ->
\* validate_interpretation -> analyze_deadlines -> calculate_score yields a
\* logic score in 0..30, a timeline score in 0..20, text_support in 0..40,
\* precedent = 5 and a total in 0..100, the logic and timeline scores being
\* the ones the two batteries returned.
PipelineScoresWithinRange ==
    \A i \in 1..Calls("calculate_score") :
        LET final_score == returned.calculate_score[i]
        IN /\ final_score.logic_score = returned.validate_interpretation[i].score
           /\ final_score.timeline_score = returned.analyze_deadlines[i].score
           /\ final_score.logic_score \in 0..30
           /\ final_score.timeline_score \in 0..20
           /\ final_score.text_support \in 0..40
           /\ final_score.precedent = 5
           /\ final_score.total \in 0..100

\* C1 witness: the pipeline has run on all six provisions with text_support
\* at its cap and every logic check scoring.
PipelineScoresWitness ==
    /\ DOMAIN articles = ArticleNos
    /\ \E final_score \in Results("calculate_score") :
          /\ final_score.text_support = 40
          /\ final_score.logic_score = 21
          /\ final_score.timeline_score > 0

\* C2: whatever logic_results and timeline_results calculate_score is handed,
\* a 'score' outside its range included, every reported component stays
\* within its cap (40, 30, 20, 10) and total, their sum, lies in 0..100.
ComponentsCapped ==
    \A final_score \in Results("calculate_score") :
        /\ final_score.text_support \in 0..40
        /\ final_score.logic_score \in 0..30
        /\ final_score.timeline_score \in 0..20
        /\ final_score.precedent \in 0..10
        /\ final_score.total = final_score.text_support + final_score.logic_score
                               + final_score.timeline_score + final_score.precedent
        /\ final_score.total \in 0..100

\* The five buckets, lowest first.
CategoryRank(category) ==
    CASE category = "Not Supported" -> 0
      [] category = "Weakly Supported" -> 1
      [] category = "Partially Supported" -> 2
      [] category = "Moderately Supported" -> 3
      [] category = "Strongly Supported" -> 4

\* C3: the category calculate_score returns is a step function of total
\* alone: >= 80 Strongly, 65..79 Moderately, 50..64 Partially, 35..49
\* Weakly, below 35 Not Supported; and no higher total falls in a lower
\* bucket.
CategoryIsStepFunction ==
    \A final_score \in Results("calculate_score") :
        /\ (final_score.category = "Strongly Supported") <=> (final_score.total >= 80)
        /\ (final_score.category = "Moderately Supported") <=> (final_score.total \in 65..79)
        /\ (final_score.category = "Partially Supported") <=> (final_score.total \in 50..64)
        /\ (final_score.category = "Weakly Supported") <=> (final_score.total \in 35..49)
        /\ (final_score.category = "Not Supported") <=> (final_score.total < 35)
        /\ \A higher \in final_score.total..100 :
              CategoryRank(_determine_category(higher)) >= CategoryRank(final_score.category)

\* C3 witness: a returned total sits exactly on the highest threshold.
CategoryWitness ==
    \E final_score \in Results("calculate_score") :
        final_score.total = 80 /\ final_score.category = "Strongly Supported"

\* The ambiguity records of reasoning_results whose importance is 'critical'.
CriticalCount ==
    IF "ambiguities" \in DOMAIN reasoning_results
    THEN Cardinality({k \in 1..Len(reasoning_results.ambiguities) :
                        /\ "importance" \in DOMAIN reasoning_results.ambiguities[k]
                        /\ reasoning_results.ambiguities[k].importance = "critical"})
    ELSE 0

\* C4: confidence depends on total and on the number of critical ambiguities
\* only: with a critical ambiguity Moderate from 70 and Low below (never
\* High); with none High from 70, Moderate in 50..69, Low below.  A total of
\* 62 is Partially Supported, Moderate without critical ambiguity and Low
\* with one.
ConfidenceFollowsTotalAndCritical ==
    \A final_score \in Results("calculate_score") :
        /\ final_score.confidence =
              (IF CriticalCount >= 1
               THEN (IF final_score.total >= 70 THEN "Moderate Confidence"
                     ELSE "Low Confidence")
               ELSE (IF final_score.total >= 70 THEN "High Confidence"
                     ELSE IF final_score.total >= 50 THEN "Moderate Confidence"
                     ELSE "Low Confidence"))
        /\ final_score.total = 62 =>
              /\ final_score.category = "Partially Supported"
              /\ CriticalCount = 0 => final_score.confidence = "Moderate Confidence"
              /\ CriticalCount = 1 => final_score.confidence = "Low Confidence"

\* C4 witness: a total of 62 scored with ambiguities of which exactly one is
\* critical.
ConfidenceWitness ==
    /\ CriticalCount = 1
    /\ Len(reasoning_results.ambiguities) = 2
    /\ \E final_score \in Results("calculate_score") :
          final_score.total = 62 /\ final_score.confidence = "Low Confidence"

\* C5: for a fixed provision set every call of build_graph, detect_conflicts,
\* validate_interpretation, analyze_deadlines and calculate_score returns
\* what the first call of that operation returned, the itemized deadlines,
\* conflicts and checks included.
RepeatedCallsAgree ==
    /\ \A G \in Results("build_graph") : G = returned.build_graph[1]
    /\ \A d \in Results("detect_conflicts") :
          d.conflicts = returned.detect_conflicts[1].conflicts
    /\ \A r \in Results("validate_interpretation") :
          r = returned.validate_interpretation[1]
    /\ \A r \in Results("analyze_deadlines") : r = returned.analyze_deadlines[1]
    /\ \A r \in Results("calculate_score") : r = returned.calculate_score[1]

\* C6: every call of build_graph after the first leaves the graph with the
\* nodes, edges and edge attributes the first call left.
BuildGraphIdempotent ==
    \A G \in Results("build_graph") :
        /\ DOMAIN G.nodes = DOMAIN returned.build_graph[1].nodes
        /\ DOMAIN G.edges = DOMAIN returned.build_graph[1].edges
        /\ G.edges = returned.build_graph[1].edges
        /\ G.nodes = returned.build_graph[1].nodes
        /\ graph = returned.build_graph[1]

\* C6 witness: build_graph ran twice on provisions that give the edge
\* 143 -> 58 both as a reference and as a curated edge.
BuildGraphWitness ==
    /\ Calls("build_graph") >= 2
    /\ "143" \in DOMAIN articles
    /\ "58" \in articles["143"].references_to
    /\ has_edge(graph, "143", "58")
    /\ graph.edges[<<"143", "58">>] = [relationship |-> "modifies", critical |-> TRUE]
    /\ has_edge(graph, "103", "143")

\* C7: in every result of validate_interpretation each of the four checks
\* gives its description to exactly one of supporting_factors and
\* contradicting_factors, to the former iff supports_interpretation holds.
EvidencePartition ==
    \A r \in Results("validate_interpretation") :
        /\ Len(r.checks) = 4
        /\ Len(r.supporting_factors) + Len(r.contradicting_factors) = Len(r.checks)
        /\ \A k \in 1..Len(r.checks) :
              /\ InSeq(r.checks[k].description, r.supporting_factors)
                    <=> r.checks[k].supports_interpretation
              /\ InSeq(r.checks[k].description, r.contradicting_factors)
                    <=> ~r.checks[k].supports_interpretation

\* C7 witness: a result with two supporting and two contradicting checks.
EvidencePartitionWitness ==
    \E r \in Results("validate_interpretation") :
        Len(r.supporting_factors) = 2 /\ Len(r.contradicting_factors) = 2

\* C8: the conflicts detect_conflicts returns once edges have been added to
\* the graph include every conflict it returned before; before and after
\* build_graph it returns the same conflicts.
ConflictsMonotone ==
    \A i, j \in 1..Calls("detect_conflicts") :
        LET before == returned.detect_conflicts[i]
            after == returned.detect_conflicts[j]
        IN (i < j /\ before.edges \subseteq after.edges) =>
              /\ \A k \in 1..Len(before.conflicts) :
                    InSeq(before.conflicts[k], after.conflicts)
              /\ before.edges = {} => after.conflicts = before.conflicts

\* C8 witness: conflicts were detected on the empty graph and again once
\* build_graph had added the edge 103 -> 143.
ConflictsMonotoneWitness ==
    /\ Calls("detect_conflicts") >= 2
    /\ returned.detect_conflicts[1].edges = {}
    /\ Len(returned.detect_conflicts[1].conflicts) = 2
    /\ <<"103", "143">> \in returned.detect_conflicts[Calls("detect_conflicts")].edges

\* Scenario B: 143 holds the six-month deadline and 28 the four-year one.
ScenarioB ==
    /\ "143" \in DOMAIN articles
    /\ "28" \in DOMAIN articles
    /\ InText("exi mines", articles["143"].text)
    /\ InText("tessera chronia", articles["28"].text)
          \/ InText("tesseris eton", articles["28"].text)

\* The conflicts of the list cs whose type is kind.
OfKind(cs, kind) == SelectSeq(cs, LAMBDA c : c.type = kind)

\* C9 as stated: in scenario B detect_conflicts returns exactly one conflict
\* of kind 'timeline_mismatch', of severity 'high'.
DetectReturnsTimelineMismatch ==
    ScenarioB =>
        \A d \in Results("detect_conflicts") :
            /\ Len(OfKind(d.conflicts, "timeline_mismatch")) = 1
            /\ OfKind(d.conflicts, "timeline_mismatch")[1].severity = "high"

\* C9 amended: in scenario B detect_conflicts returns exactly one conflict
\* on the provisions 143 and 28, of kind 'timeline_inconsistency' and
\* severity 'medium', and none of kind 'timeline_mismatch'; the one
\* 'timeline_mismatch' conflict of severity 'high' is in the conflicts
\* analyze_deadlines returns.
TimelineConflictPerDetector ==
    ScenarioB =>
        /\ \A d \in Results("detect_conflicts") :
              /\ Len(SelectSeq(d.conflicts, LAMBDA c : c.articles = <<"143", "28">>)) = 1
              /\ Len(OfKind(d.conflicts, "timeline_inconsistency")) = 1
              /\ OfKind(d.conflicts, "timeline_inconsistency")[1].articles = <<"143", "28">>
              /\ OfKind(d.conflicts, "timeline_inconsistency")[1].severity = "medium"
              /\ OfKind(d.conflicts, "timeline_mismatch") = <<>>
        /\ \A r \in Results("analyze_deadlines") :
              /\ Len(OfKind(r.conflicts, "timeline_mismatch")) = 1
              /\ OfKind(r.conflicts, "timeline_mismatch")[1].severity = "high"
              /\ OfKind(r.conflicts, "timeline_inconsistency") = <<>>

\* C9 witness: scenario B went through the pipeline and detect_conflicts.
TimelineConflictWitness ==
    /\ ScenarioB
    /\ Calls("detect_conflicts") = 1
    /\ Calls("analyze_deadlines") = 1
    /\ Len(returned.detect_conflicts[1].conflicts) = 2

\* Provision 103 holds the prohibition phrase together with its subject, the
\* examination.
VerbatimProhibition ==
    /\ "103" \in DOMAIN articles
    /\ \E k \in 1..Len(articles["103"].text) :
          /\ InSentence("den epitrepei tin tropopoiisi", articles["103"].text[k])
          /\ InSentence("exetasi", articles["103"].text[k])

\* C10: the prohibition-exists check awards 8 points and supports the
\* interpretation when 103 holds the verbatim prohibition of modifying the
\* examination; 3 points without support only when 103 carries the
\* 'prohibition' constraint but not the verbatim phrase; 0 points when 103
\* is absent or carries no 'prohibition' constraint.
ProhibitionCheckAsStated ==
    \A r \in Results("validate_interpretation") :
        LET check == r.checks[1]
            tagged == /\ "103" \in DOMAIN articles
                      /\ InSeq("prohibition", articles["103"].constraints)
        IN /\ check.points_possible = 8
           /\ VerbatimProhibition =>
                 check.points_awarded = 8 /\ check.supports_interpretation
           /\ check.points_awarded = 3 =>
                 tagged /\ ~VerbatimProhibition /\ ~check.supports_interpretation
           /\ ~tagged => check.points_awarded = 0

\* Some sentence of the text of a loaded article holds phrase p.
Holds(article_no, p) ==
    /\ article_no \in DOMAIN articles
    /\ \E k \in 1..Len(articles[article_no].text) : p \in articles[article_no].text[k]

DownstreamLink == Holds("143", "arthro 27")

\* C12: the consistency sub-score starts at 8, loses 5 when the six-month
\* and the four-year deadline were both extracted, loses 2 more when the
\* six-month deadline exists without an explicit textual link to the
\* downstream obligation and nothing when the link is there, and is floored
\* at 0; with both deadlines and no link it is 1.
ConsistencyAsStated ==
    \A r \in Results("analyze_deadlines") :
        LET six_month == HasDeadline(r.deadlines, "143(i)")
            four_year == HasDeadline(r.deadlines, "28")
            expected == 8 - (IF six_month /\ four_year THEN 5 ELSE 0)
                          - (IF six_month /\ ~DownstreamLink THEN 2 ELSE 0)
        IN /\ r.score_breakdown.consistency = Max(expected, 0)
           /\ (six_month /\ four_year /\ ~DownstreamLink) =>
                 r.score_breakdown.consistency = 1

\* The fallback of a check whose provision is absent.
IsFallback(check) == check.points_awarded = 0 /\ ~check.supports_interpretation

\* C13: whatever provisions are missing, every operation returns a result:
\* the graph and the chain hold loaded provisions only, a check whose provision
\* is absent returns 0 points without support, a conflict rule or deadline
\* whose provision is absent yields nothing, and an absent provision adds
\* nothing to text_support.
MissingProvisionsFallBack ==
    /\ \A G \in Results("build_graph") : DOMAIN G.nodes \subseteq DOMAIN articles
    /\ \A k \in 1..Len(find_interpretation_chain) :
          find_interpretation_chain[k] \in DOMAIN articles
    /\ \A r \in Results("validate_interpretation") :
          /\ Len(r.checks) = 4
          /\ "103" \notin DOMAIN articles => IsFallback(r.checks[1])
          /\ "143" \notin DOMAIN articles =>
                IsFallback(r.checks[2]) /\ IsFallback(r.checks[4])
    /\ \A d \in Results("detect_conflicts") :
          \A k \in 1..Len(d.conflicts) :
              \A n \in 1..Len(d.conflicts[k].articles) :
                  d.conflicts[k].articles[n] \in DOMAIN articles
    /\ \A r \in Results("analyze_deadlines") :
          /\ "58" \notin DOMAIN articles => ~HasDeadline(r.deadlines, "58(2)")
          /\ "143" \notin DOMAIN articles => ~HasDeadline(r.deadlines, "143(i)")
          /\ "28" \notin DOMAIN articles => ~HasDeadline(r.deadlines, "28")
    /\ \A r \in Results("calculate_score") :
          DOMAIN articles \cap {"103", "143", "27"} = {} => r.text_support = 0

\* C13 witness: with no provision loaded at all the graph was built and both
\* batteries and the aggregation returned.
MissingProvisionsWitness ==
    /\ DOMAIN articles = {}
    /\ Calls("build_graph") = 1
    /\ Calls("validate_interpretation") = 1
    /\ Calls("analyze_deadlines") = 1
    /\ Calls("calculate_score") = 1
    /\ returned.validate_interpretation[1].score = 4
    /\ returned.calculate_score[1].total = 17

\* C14: after build_graph the nodes are the loaded provision ids, there is
\* an edge a -> b for every loaded a whose references_to holds a loaded b,
\* and a reference to an id that is not loaded adds neither edge nor node:
\* every edge endpoint is a loaded provision.
NodesAndReferenceEdges ==
    \A G \in Results("build_graph") :
        /\ DOMAIN G.nodes = DOMAIN articles
        /\ \A a \in DOMAIN articles :
              \A b \in articles[a].references_to :
                  b \in DOMAIN articles <=> <<a, b>> \in DOMAIN G.edges
        /\ \A e \in DOMAIN G.edges :
              e[1] \in DOMAIN articles /\ e[2] \in DOMAIN articles

\* C14 witness: 143 cites 27, which is loaded, and 58, which is not; the
\* graph was built with the reference edge 143 -> 27.
NodesAndReferenceEdgesWitness ==
    /\ Holds("143", "arthro 58") /\ "58" \notin DOMAIN articles
    /\ Holds("143", "arthro 27") /\ "27" \in DOMAIN articles
    /\ Calls("build_graph") = 1
    /\ has_edge(graph, "143", "27")
    /\ graph.edges[<<"143", "27">>] = [relationship |-> "references"]

\* The curated edges: source, target, relationship.
Curated ==
    { <<"103", "143", "enables">>, <<"143", "58", "modifies">>,
      <<"27", "16", "requires">>, <<"28", "27", "alternative">> }

\* C15: after build_graph each curated edge 103 -> 143 (enables), 143 -> 58
\* (modifies), 27 -> 16 (requires), 28 -> 27 (alternative) is present with
\* critical = true iff both its endpoints are loaded, and no other edge is
\* critical.
CuratedEdges ==
    \A G \in Results("build_graph") :
        /\ \A c \in Curated :
              (c[1] \in DOMAIN articles /\ c[2] \in DOMAIN articles)
              <=> /\ <<c[1], c[2]>> \in DOMAIN G.edges
                  /\ G.edges[<<c[1], c[2]>>] = [relationship |-> c[3], critical |-> TRUE]
        /\ \A e \in DOMAIN G.edges :
              (\A c \in Curated : <<c[1], c[2]>> # e)
              => "critical" \notin DOMAIN G.edges[e]

\* C15 witness: the graph was built twice with the curated edge 143 -> 58
\* (also a reference), the plain reference 143 -> 27, and 103 not loaded.
CuratedEdgesWitness ==
    /\ Calls("build_graph") >= 2
    /\ "103" \notin DOMAIN articles
    /\ has_edge(graph, "143", "58")
    /\ has_edge(graph, "143", "27")
    /\ has_edge(graph, "28", "27")

\* An id no provision has.
UnknownId == "99"

\* C16: get_article_dependencies(id) returns the successors of id as
\* depends_on and its predecessors as depended_by; for an id that is no
\* node (unknown, or asked before build_graph) both are empty.
DependenciesAreNeighbours ==
    \A id \in ArticleNos \cup {UnknownId} :
        LET d == get_article_dependencies(id)
        IN /\ DOMAIN d = {"depends_on", "depended_by"}
           /\ id \in DOMAIN graph.nodes =>
                 /\ d.depends_on = {n \in DOMAIN graph.nodes : has_edge(graph, id, n)}
                 /\ d.depended_by = {n \in DOMAIN graph.nodes : has_edge(graph, n, id)}
           /\ id \notin DOMAIN graph.nodes =>
                 d.depends_on = {} /\ d.depended_by = {}

\* C16 witness: in the built graph 143 depends on 58 and 27 and 103 depends
\* on it; the unknown id has no dependencies.
DependenciesWitness ==
    /\ Calls("build_graph") >= 1
    /\ get_article_dependencies("143") =
          [depends_on |-> {"58", "27"}, depended_by |-> {"103"}]
    /\ get_article_dependencies(UnknownId) = [depends_on |-> {}, depended_by |-> {}]

\* The sums of the sub-collections of a collection of awards, given as a
\* sequence, none above the cap of 40.
RECURSIVE SubsetSums(_)
SubsetSums(awards) ==
    IF awards = <<>> THEN {0}
    ELSE LET rest == SubsetSums(Tail(awards))
         IN {n \in rest \cup {Head(awards) + m : m \in rest} : n <= 40}

\* C17 as stated: each of the four text checks awards its full value or
\* nothing, so text_support is a subset sum of 15, 12, 8 and 5.
TextSupportAllOrNothing ==
    \A r \in Results("calculate_score") :
        r.text_support \in SubsetSums(<<15, 12, 8, 5>>)

\* C17 amended: text_support is the sum, capped at 40, of 15 or 0 for
\* provision 103, 6 for each of the two phrases of provision 143 (0, 6 or
\* 12), 8 or 0 for provision 27 and 5 or 0 for the number 58 in 143 with 58
\* loaded; so it is a subset sum of 15, 6, 6, 8 and 5.
TextSupportParts ==
    \A r \in Results("calculate_score") :
        LET for103 == IF /\ "103" \in DOMAIN articles
                         /\ InText("den epitrepei tin tropopoiisi", articles["103"].text)
                         /\ InText("exetasi", articles["103"].text)
                      THEN 15 ELSE 0
            for143 == (IF Holds("143", "exi mines") THEN 6 ELSE 0)
                      + (IF Holds("143", "ena mono merisma") THEN 6 ELSE 0)
            for27 == IF Holds("27", "oloklirothei i dimosia exetasi") THEN 8 ELSE 0
            for58 == IF /\ "58" \in DOMAIN articles
                        /\ Holds("143", "58") \/ Holds("143", "arthro 58")
                     THEN 5 ELSE 0
        IN /\ r.text_support = Min(for103 + for143 + for27 + for58, 40)
           /\ r.text_support \in SubsetSums(<<15, 6, 6, 8, 5>>)

\* C17 witness: 143 holds one of its two phrases and earns half of its 12.
TextSupportPartsWitness ==
    /\ Holds("143", "exi mines")
    /\ ~Holds("143", "ena mono merisma")
    /\ \E r \in Results("calculate_score") : r.text_support = 6

\* C18: for every provision set the modification-equivalence check returns
\* 4 of 10 points, no support, ambiguity level 'high' and the fixed evidence
\* list, the supporting arguments followed by the contradicting ones.
ModificationEquivalenceConstant ==
    \A r \in Results("validate_interpretation") :
        LET check == r.checks[3]
        IN /\ check.name = "modification_equivalence"
           /\ check.points_possible = 10
           /\ check.points_awarded = 4
           /\ ~check.supports_interpretation
           /\ check.ambiguity_level = "high"
           /\ Len(check.evidence) = 8
           /\ SubSeq(check.evidence, 1, 4) = supporting_logic
           /\ SubSeq(check.evidence, 5, 8) = contradicting_logic

\* C18 witness: the check was made with no provision loaded.
ModificationEquivalenceWitness ==
    /\ DOMAIN articles = {}
    /\ \E r \in Results("validate_interpretation") :
          r.checks[3].points_awarded = 4 /\ r.score = 4

\* The deadlines of the list dl for provision tag that last days days.
DeadlinesFor(dl, tag, days) ==
    SelectSeq(dl, LAMBDA d : d.article = tag /\ d.duration_days = days)

\* C19: the deadlines every analyze_deadlines call reports, the first or a
\* repeated one, hold exactly one deadline for each of 58 ('58(2)', 120
\* days), 143 ('143(i)', 180 days) and 28 ('28', 1460 days) that is loaded
\* with its phrase, and no other deadline.
DeadlinesExactlyOnce ==
    \A r \in Results("analyze_deadlines") :
        LET from58 == IF Holds("58", "tesseris mines") THEN 1 ELSE 0
            from143 == IF Holds("143", "exi mines") THEN 1 ELSE 0
            from28 == IF Holds("28", "tessera chronia") \/ Holds("28", "tesseris eton")
                      THEN 1 ELSE 0
        IN /\ Len(DeadlinesFor(r.deadlines, "58(2)", 120)) = from58
           /\ Len(DeadlinesFor(r.deadlines, "143(i)", 180)) = from143
           /\ Len(DeadlinesFor(r.deadlines, "28", 1460)) = from28
           /\ Len(r.deadlines) = from58 + from143 + from28

\* C20: detect_conflicts emits 'prohibition_vs_modification' (high, on 103
\* and 143) iff 103 and 143 are loaded, 103 has the 'prohibition'
\* constraint and 143 the 'modification' key term, and the 143/28 timeline
\* conflict iff 143 and 28 are loaded; neither depends on the other and a
\* rule with a missing provision emits nothing.
ConflictRulesIndependent ==
    \A d \in Results("detect_conflicts") :
        LET first == OfKind(d.conflicts, "prohibition_vs_modification")
            second == SelectSeq(d.conflicts, LAMBDA c : c.articles = <<"143", "28">>)
            prohibited == /\ "103" \in DOMAIN articles
                          /\ "143" \in DOMAIN articles
                          /\ InSeq("prohibition", articles["103"].constraints)
                          /\ InSeq("modification", articles["143"].key_terms)
            timed == "143" \in DOMAIN articles /\ "28" \in DOMAIN articles
        IN /\ Len(first) = (IF prohibited THEN 1 ELSE 0)
           /\ prohibited => /\ first[1].severity = "high"
                            /\ first[1].articles = <<"103", "143">>
           /\ Len(second) = (IF timed THEN 1 ELSE 0)
           /\ Len(d.conflicts) = Len(first) + Len(second)

\* C20 witness: both rules fired on a 103 that prohibits without the
\* verbatim phrase.
ConflictRulesWitness ==
    /\ Holds("103", "den epitrepetai")
    /\ ~Holds("103", "den epitrepei tin tropopoiisi")
    /\ "28" \in DOMAIN articles
    /\ \E d \in Results("detect_conflicts") :
          /\ Len(OfKind(d.conflicts, "prohibition_vs_modification")) = 1
          /\ Len(OfKind(d.conflicts, "timeline_inconsistency")) = 1

\* C21: the implication-strength sub-score of every analyze_deadlines call
\* is 0 when no 6-month deadline was extracted; otherwise it is +3 if that
\* deadline is mandatory, +2 if 143 holds the single-distribution phrase,
\* +1 if 27 holds the completion-precondition phrase and -1 if the 4-year
\* deadline of 28 is among the extracted deadlines, floored at 0.
ImplicationStrengthAsStated ==
    \A r \in Results("analyze_deadlines") :
        r.score_breakdown.implication_strength =
            IF ~HasDeadline(r.deadlines, "143(i)") THEN 0
            ELSE Max((IF FirstDeadline(r.deadlines, "143(i)").mandatory THEN 3 ELSE 0)
                     + (IF Holds("143", "ena mono merisma") THEN 2 ELSE 0)
                     + (IF Holds("27", "oloklirothei i dimosia exetasi") THEN 1 ELSE 0)
                     - (IF HasDeadline(r.deadlines, "28") THEN 1 ELSE 0), 0)

\* The verdict fields of a check.
Verdict(check) ==
    [points_awarded |-> check.points_awarded,
     points_possible |-> check.points_possible,
     supports_interpretation |-> check.supports_interpretation]

\* C22: the downstream-implication check, the fourth of the battery, is
\* worth 5 points and awards 2 exactly when 143 is loaded and holds the
\* single-distribution phrase, 0 otherwise; it never supports the
\* interpretation.
DownstreamImplication ==
    \A r \in Results("validate_interpretation") :
        /\ r.checks[4].name = "single_dividend_implication"
        /\ Verdict(r.checks[4]) =
              [points_awarded |-> IF Holds("143", "ena mono merisma") THEN 2 ELSE 0,
               points_possible |-> 5,
               supports_interpretation |-> FALSE]

\* C22 witness: the check awarded its 2 points without supporting.
DownstreamImplicationWitness ==
    /\ Holds("143", "ena mono merisma")
    /\ \E r \in Results("validate_interpretation") :
          r.checks[4].points_awarded = 2 /\ ~r.checks[4].supports_interpretation

\* C23: every check of the battery has 0 <= points_awarded <=
\* points_possible; the points_possible are 8, 7, 10 and 5, which sum to
\* max_score = 30; the battery score is the sum of the four points_awarded.
CheckPointsBounded ==
    \A r \in Results("validate_interpretation") :
        /\ Len(r.checks) = 4
        /\ \A i \in 1..4 :
              /\ 0 <= r.checks[i].points_awarded
              /\ r.checks[i].points_awarded <= r.checks[i].points_possible
        /\ [i \in 1..4 |-> r.checks[i].points_possible] = <<8, 7, 10, 5>>
        /\ r.max_score = 8 + 7 + 10 + 5
        /\ r.score = r.checks[1].points_awarded + r.checks[2].points_awarded
                     + r.checks[3].points_awarded + r.checks[4].points_awarded

\* C23 witness: a battery where every check awarded points, the first two
\* all of theirs.
CheckPointsWitness ==
    \E r \in Results("validate_interpretation") :
        /\ r.checks[1].points_awarded = 8
        /\ r.checks[2].points_awarded = 7
        /\ r.checks[3].points_awarded > 0
        /\ r.checks[4].points_awarded > 0

\* The edges G holds from u to v, each as its attribute dict.
EdgesBetween(G, u, v) == IF has_edge(G, u, v) THEN {G.edges[<<u, v>>]} ELSE {}

\* C24: when 143 cites 58 and both are loaded, so that build_graph adds the
\* 'references' edge 143 -> 58 and then the curated 'modifies' edge, the
\* graph it returns holds both edges: the curated edge does not replace the
\* 'references' edge.
BothEdgesKept ==
    \A G \in Results("build_graph") :
        ("58" \in DOMAIN articles /\ "143" \in DOMAIN articles
         /\ "58" \in articles["143"].references_to)
        => /\ \E e \in EdgesBetween(G, "143", "58") : e.relationship = "references"
           /\ \E e \in EdgesBetween(G, "143", "58") : e.relationship = "modifies"

\* build_graph ends in `return self.graph`: whoever holds the result of an
\* earlier call holds the analyzer's graph as it is now.
ReturnedGraph == graph

\* C25: every build_graph call starts from an empty graph and returns a
\* fresh instance: once the last call has returned, the graph an earlier
\* call returned is as it was returned, and the graph the last call
\* returned has nodes and edges only for the provisions still in the
\* provision map.
FreshGraphPerBuild ==
    Calls("build_graph") = MaxRepeats
    => /\ \A i \in 1..(MaxRepeats - 1) : ReturnedGraph = returned.build_graph[i]
       /\ LET G == returned.build_graph[MaxRepeats]
          IN /\ DOMAIN G.nodes \subseteq DOMAIN articles
             /\ \A e \in DOMAIN G.edges : e[1] \in DOMAIN articles /\ e[2] \in DOMAIN articles

\* The steps of the operations that only read the provision map and the
\* graph: the return value is logged, build_graph did not run.
ReaderStep ==
    \E op \in {"detect_conflicts", "find_interpretation_chain", "validate_interpretation",
               "validate_article_chain", "analyze_deadlines", "calculate_score"} :
        Len(returned[op]') = Len(returned[op]) + 1

\* C26: detect_conflicts, find_interpretation_chain, validate_interpretation,
\* validate_article_chain, analyze_deadlines and calculate_score leave the
\* provision map and the built graph as they were, and calculate_score
\* leaves logic_results, timeline_results and reasoning_results as they
\* were.
ReadersLeaveInputs ==
    [][/\ ReaderStep => articles' = articles /\ graph' = graph
       /\ Calls("calculate_score")' = Calls("calculate_score") + 1
          => UNCHANGED <<logic_results, timeline_results, reasoning_results>>]_vars

\* C26 witness: validate_interpretation, analyze_deadlines and
\* calculate_score have returned around a build_graph call that added
\* edges; the graph is the built one and the results are the batteries'.
ReadersWitness ==
    /\ Calls("build_graph") = 1
    /\ Calls("calculate_score") = 1
    /\ graph.edges # EmptyDict
    /\ graph = returned.build_graph[1]
    /\ logic_results = returned.validate_interpretation[1]
    /\ timeline_results = returned.analyze_deadlines[1]

\* C27: over every provision set the pipeline's total lies in 17..79: the
\* empty set scores 17 (logic 4, timeline 8, precedent 5) and no set scores
\* more than 40 + 21 + 13 + 5, so the pipeline never produces the category
\* 'Strongly Supported'.
PipelineTotalBetween17And79 ==
    \A final_score \in Results("calculate_score") :
        /\ final_score.total \in 17..79
        /\ final_score.logic_score \in 4..21
        /\ final_score.timeline_score <= 13
        /\ final_score.category # "Strongly Supported"
        /\ DOMAIN articles = {}
           => /\ final_score.total = 17
              /\ final_score.logic_score = 4
              /\ final_score.timeline_score = 8
              /\ final_score.precedent = 5

\* C27 witness: a provision set that scores the maximum, every component at
\* the most the pipeline reaches.
PipelineTotalWitness ==
    \E final_score \in Results("calculate_score") :
        /\ final_score.total = 79
        /\ final_score.text_support = 40
        /\ final_score.logic_score = 21
        /\ final_score.timeline_score = 13

\* C28: on one TimelineAnalyzer, the score, the score_breakdown and the
\* conflicts every later analyze_deadlines call returns equal those the
\* first call returned, although self.deadlines keeps growing.
LaterAnalysesScoreAlike ==
    \A n \in 2..Calls("analyze_deadlines") :
        LET first == returned.analyze_deadlines[1]
            nth == returned.analyze_deadlines[n]
        IN /\ nth.score = first.score
           /\ nth.score_breakdown = first.score_breakdown
           /\ nth.conflicts = first.conflicts

\* C28 witness: a second call returned with every deadline listed twice and
\* both conflicts reported.
LaterAnalysesWitness ==
    /\ Calls("analyze_deadlines") >= 2
    /\ Len(returned.analyze_deadlines[1].deadlines) = 3
    /\ Len(returned.analyze_deadlines[2].deadlines) = 6
    /\ Len(returned.analyze_deadlines[2].conflicts) = 2

\* C29: on the graph build_graph returns, for every provision set,
\* validate_article_chain returns valid = true and no breaks.
BuiltChainValid ==
    \A G \in Results("build_graph") :
        /\ validate_article_chain(G).valid
        /\ validate_article_chain(G).breaks = <<>>

\* C29 witness: a built graph with both links of the chain, 143 not citing
\* 58.
BuiltChainWitness ==
    /\ {"103", "143", "58"} \subseteq DOMAIN articles
    /\ "58" \notin articles["143"].references_to
    /\ \E G \in Results("build_graph") :
          has_edge(G, "103", "143") /\ has_edge(G, "143", "58")

\* detect_conflicts' conflict on 143 and 28.
TimelineConflictsOf(d) == SelectSeq(d.conflicts, LAMBDA c : c.articles = <<"143", "28">>)

\* C30: whenever analyze_deadlines reports a 'timeline_mismatch',
\* detect_conflicts reports its conflict on 143 and 28.
MismatchImpliesTimelineConflict ==
    \A r \in Results("analyze_deadlines") :
        \A d \in Results("detect_conflicts") :
            OfKind(r.conflicts, "timeline_mismatch") # <<>>
            => TimelineConflictsOf(d) # <<>>

\* C30 witness: the converse fails: detect_conflicts reports the conflict on
\* 143 and 28, both loaded without their deadline phrases, and
\* analyze_deadlines no 'timeline_mismatch'.
ConverseFailsWitness ==
    /\ "143" \in DOMAIN articles /\ ~Holds("143", "exi mines")
    /\ "28" \in DOMAIN articles
    /\ ~Holds("28", "tessera chronia") /\ ~Holds("28", "tesseris eton")
    /\ \E r \in Results("analyze_deadlines") :
          \E d \in Results("detect_conflicts") :
             /\ OfKind(r.conflicts, "timeline_mismatch") = <<>>
             /\ TimelineConflictsOf(d) # <<>>

====
